---- MODULE Spec2Model ----
(***************************************************************************)
(* Model of trex_stl_service_int.py: the service context (STLServiceCtx),  *)
(* its TX buffer (TXBuffer), the per-service packet store (Pkt / PktRX)    *)
(* and the service pipe (STLServicePipe), running on the simpy event loop. *)
(*                                                                         *)
(* The simpy environment is modelled by its event queue: events are kept   *)
(* sorted by (time, priority, insertion order) and env.step() pops the     *)
(* first one and runs its callbacks.  A generator (a service or the tick   *)
(* process) runs from one yield to the next; the collaborator calls of the *)
(* tick process and of _run that can raise are separate steps.             *)
(* Logical time is counted in units of 0.025, so the backoff 0.05 is 2.    *)
(***************************************************************************)
EXTENDS Integers, Sequences, FiniteSets, TLC

\* ---------------------------------------------------------------- bounds
MaxOps    == 2        \* pipe operations made by all the services of a run
MaxTime   == 4        \* logical time up to which the event loop is followed
MaxFrames == 2        \* frames the port captures during a run

\* ------------------------------------------------------------- constants
Backoff == 2          \* env.timeout(0.05), in units of 0.025
Tick    == 0          \* the process id of _tick_process

None == 0 - 1         \* Python's None where an integer may stand

\* The services a run() argument may hold, in the order of the argument.
ServiceIds == {1, 2}
\* What the services pass to the pipe.
Durations  == {0, Backoff - 1}
Timeouts   == {None, 0, Backoff}
Limits     == {None, 1, 2}
\* What a filter's lookup may answer for a captured packet.
Matches    == SUBSET ServiceIds

VARIABLES
    pc,        \* position of _run: entry, start_capture, running, teardown, exited
    err,       \* the exception _run is propagating ("none" if none)
    arg,       \* the argument run() was called with
    nsvc,      \* self.services: the services 1..nsvc, in registration order
    filters,   \* self.filters: filter type -> [members, capture_id]
    forder,    \* iteration order of self.filters
    idx,       \* position of the loop over self.filters being executed
    active,    \* self.active_services
    isProm,    \* the local is_promiscuous of _run
    now,       \* env.now
    queue,     \* the environment's event queue
    runq,      \* processes the event being processed still has to resume
    tickpc,    \* position inside one iteration of _tick_process
    buf,       \* tx_buffer.pkts (with the pushing service and the event returned)
    txEvent,   \* tx_buffer.tx_event: the number of the event object
    txWait,    \* callbacks of tx_buffer.tx_event: the services yielding on it
    store,     \* pipe.pkt.items per service
    pend,      \* the pending PktRX of each store
    status,    \* each service's process: none, alive, returned, raised
    portProm,  \* the port's promiscuous attribute
    sessions,  \* capture sessions open on the port
    txNow,     \* what send_all transmitted in the current tick iteration
    log,       \* the calls the port received and the times the clock showed
    nops,      \* pipe operations made so far
    nframes    \* frames captured so far (the server's arrival timestamps)

vars == <<pc, err, arg, nsvc, filters, forder, idx, active, isProm, now, queue,
          runq, tickpc, buf, txEvent, txWait, store, pend, status, portProm, sessions,
          txNow, log, nops, nframes>>

regVars  == <<nsvc, filters, forder, active>>
envVars  == <<now, queue, runq, tickpc, buf, txEvent, txWait, store, pend, txNow>>
bndVars  == <<nops, nframes>>

\* ------------------------------------------------------------- helpers
Min(a, b) == IF a <= b THEN a ELSE b

Take(items, n) == SubSeq(items, 1, Min(n, Len(items)))
Drop(items, n) == SubSeq(items, Min(n, Len(items)) + 1, Len(items))

RECURSIVE SeqOfSet(_)
SeqOfSet(S) ==
    IF S = {} THEN << >>
    ELSE LET m == CHOOSE x \in S : \A y \in S : x <= y
         IN  <<m>> \o SeqOfSet(S \ {m})

Count(seq, x) == Cardinality({i \in 1 .. Len(seq) : seq[i] = x})

\* ------------------------------------------------------------ event queue
Event(t, urgent, kind, who, val, ok) ==
    [t |-> t, urgent |-> urgent, kind |-> kind, who |-> who, val |-> val, ok |-> ok]

\* simpy orders events by (time, priority, event id): q[i] stays before a
\* newly scheduled f unless f is earlier or more urgent.
Before(e, f) == e.t < f.t \/ (e.t = f.t /\ (e.urgent \/ ~f.urgent))

Schedule(q, e) ==
    LET k == Cardinality({i \in 1 .. Len(q) : Before(q[i], e)})
    IN  SubSeq(q, 1, k) \o <<e>> \o SubSeq(q, k + 1, Len(q))

NoGet == [on |-> FALSE, id |-> 0, limit |-> None, t0 |-> 0, T |-> None]

NoArg == [shape |-> "none", n |-> 0, ftype |-> << >>]

\* ------------------------------------------------------------------ Init
\* A context after __init__, on a port whose promiscuous flag is on or off.
Init ==
    /\ pc = "entry"
    /\ err = "none"
    /\ arg = NoArg
    /\ nsvc = 0
    /\ filters = << >>
    /\ forder = << >>
    /\ idx = 1
    /\ active = 0
    /\ isProm = FALSE
    /\ now = 0
    /\ queue = << >>
    /\ runq = << >>
    /\ tickpc = "flush"
    /\ buf = << >>
    /\ txEvent = 1
    /\ txWait = << >>
    /\ store = [s \in ServiceIds |-> << >>]
    /\ pend = [s \in ServiceIds |-> NoGet]
    /\ status = [s \in ServiceIds |-> "none"]
    /\ portProm \in BOOLEAN
    /\ sessions = {}
    /\ txNow = << >>
    /\ log = [set_attr |-> << >>, started |-> {}, stop |-> << >>, tx |-> << >>,
              resolved |-> << >>, fetch |-> 0, ticks |-> 0, tickEnd |-> None,
              lastDone |-> None, stale |-> 0, tickAt |-> None, flush |-> 0,
              tests |-> 0, rx |-> [s \in ServiceIds |-> << >>],
              got |-> [s \in ServiceIds |-> << >>], pushed |-> {}]
    /\ nops = 0
    /\ nframes = 0

\* ------------------------------------------------------------ registration
\* filter_type.lookup(pkt): the services added to the filter that accept pkt.
Lookup(g, frame) == SeqOfSet(filters[g].members \cap frame.match)

\* The arguments of run(): a service, a list/tuple of services, or anything
\* else: an object that is no service or (n > 0) a list holding n services
\* and something that is no service.  Filter types are named in order of
\* first use.
FilterAssignments(n) ==
    {f \in [1 .. n -> 1 .. n] :
        \A i \in 1 .. n :
            \/ \E j \in 1 .. (i - 1) : f[j] = f[i]
            \/ f[i] = Cardinality({f[j] : j \in 1 .. (i - 1)}) + 1}

RunArgs ==
    UNION {{[shape |-> sh, n |-> n, ftype |-> f] : f \in FilterAssignments(n)} :
              sh \in {"list", "other"}, n \in 0 .. Cardinality(ServiceIds)}
    \cup {[shape |-> "service", n |-> 1, ftype |-> f] : f \in FilterAssignments(1)}

\* _add_single_service for the first n services of the argument.
AddServices(a, n) ==
    [nsvc    |-> n,
     filters |-> [g \in {a.ftype[i] : i \in 1 .. n} |->
                    [members |-> {i \in 1 .. n : a.ftype[i] = g},
                     capture_id |-> None]],
     forder  |-> SeqOfSet({a.ftype[i] : i \in 1 .. n})]

\* A loop that adds the services it meets until it meets something else.
AddEager(a) ==
    IF a.shape = "other"
    THEN [ok |-> FALSE, reg |-> AddServices(a, a.n)]
    ELSE [ok |-> TRUE, reg |-> AddServices(a, a.n)]

\* _add: the isinstance tests are made before any service is added.
Add(a) ==
    IF a.shape = "other"
    THEN [ok |-> FALSE, reg |-> AddServices(a, 0)]
    ELSE [ok |-> TRUE, reg |-> AddServices(a, a.n)]

\* env.process(service.run(pipe)) for every service: one Initialize event each.
RECURSIVE Spawned(_, _)
Spawned(q, n) ==
    IF n = 0 THEN q
    ELSE Schedule(Spawned(q, n - 1), Event(0, TRUE, "init", n, << >>, TRUE))

\* ------------------------------------------------------------ _run
\* A set_port_attr made whatever the port's attribute is.
EnableAlways(calls) == Append(calls, TRUE)

\* if not is_promiscuous: set_port_attr(promiscuous = True)
EnablePromiscuous(calls) == IF portProm THEN calls ELSE Append(calls, TRUE)

\* _run up to the try block: validate, _reset, _add, the environment, the
\* processes, promiscuous mode.  valid: psv.validate returns.
Run(a, valid) ==
    /\ pc = "entry"
    /\ arg' = a
    /\ \/ /\ ~valid
          /\ pc' = "exited"
          /\ err' = "precondition"
          /\ UNCHANGED <<regVars, idx, isProm, envVars, status, portProm, log>>
       \/ /\ valid
          /\ ~Add(a).ok                    \* _add raises, after _reset
          /\ nsvc' = Add(a).reg.nsvc
          /\ filters' = Add(a).reg.filters
          /\ forder' = Add(a).reg.forder
          /\ active' = 0
          /\ pc' = "exited"
          /\ err' = "configuration"
          /\ UNCHANGED <<idx, isProm, envVars, status, portProm, log>>
       \/ /\ valid
          /\ Add(a).ok
          /\ nsvc' = Add(a).reg.nsvc
          /\ filters' = Add(a).reg.filters
          /\ forder' = Add(a).reg.forder
          /\ active' = a.n
          /\ queue' = Spawned(<< >>, a.n)
          /\ status' = [s \in ServiceIds |-> IF s <= a.n THEN "alive" ELSE "none"]
          /\ isProm' = portProm
          /\ portProm' = TRUE
          /\ log' = [log EXCEPT !.set_attr = EnablePromiscuous(@)]
          /\ idx' = 1
          /\ pc' = "start_capture"
          /\ UNCHANGED <<err, now, runq, tickpc, buf, txEvent, txWait, store, pend,
                         txNow>>
    /\ UNCHANGED <<sessions, bndVars>>

\* A loop that goes on to the next filter when start_capture raises.
StartCaptureSwallowed(ok) ==
    /\ pc = "start_capture"
    /\ idx <= Len(forder)
    /\ IF ok
       THEN /\ filters' = [filters EXCEPT ![forder[idx]].capture_id = idx]
            /\ sessions' = sessions \cup {idx}
            /\ log' = [log EXCEPT !.started = @ \cup {idx}]
       ELSE UNCHANGED <<filters, sessions, log>>
    /\ idx' = idx + 1
    /\ UNCHANGED <<pc, err, arg, nsvc, forder, active, isProm, envVars, status,
                   portProm, bndVars>>

\* One client.start_capture of the loop over self.filters; the session id
\* is the number of the filter.
StartCapture(ok) ==
    /\ pc = "start_capture"
    /\ idx <= Len(forder)
    /\ IF ok
       THEN /\ filters' = [filters EXCEPT ![forder[idx]].capture_id = idx]
            /\ sessions' = sessions \cup {idx}
            /\ log' = [log EXCEPT !.started = @ \cup {idx}]
            /\ idx' = idx + 1
            /\ UNCHANGED <<pc, err>>
       ELSE /\ pc' = "teardown"
            /\ err' = "start_capture"
            /\ idx' = 1
            /\ UNCHANGED <<filters, sessions, log>>
    /\ UNCHANGED <<arg, nsvc, forder, active, isProm, envVars, status, portProm,
                   bndVars>>

\* env.process(self._tick_process()) and the entry of env.run.
StartTick ==
    /\ pc = "start_capture"
    /\ idx > Len(forder)
    /\ queue' = Schedule(queue, Event(now, TRUE, "init", Tick, << >>, TRUE))
    /\ pc' = "running"
    /\ UNCHANGED <<err, arg, regVars, idx, isProm, now, runq, tickpc, buf, txEvent,
                   txWait, store, pend, txNow, status, portProm, sessions, log,
                   bndVars>>

\* ------------------------------------------------------------ Pkt / PktRX
\* Pkt._do_get on a non-empty store, as a slice that keeps the whole list.
DoGetKeepsAll(items, limit) ==
    IF limit = None
    THEN [got |-> items, rest |-> << >>]
    ELSE [got |-> Take(items, limit), rest |-> items]

\* Pkt._do_get emptying the store in both branches.
DoGetDropsRest(items, limit) ==
    IF limit = None
    THEN [got |-> items, rest |-> << >>]
    ELSE [got |-> Take(items, limit), rest |-> << >>]

\* Pkt._do_get on a non-empty store: what the get receives, what stays.
DoGet(items, limit) ==
    IF limit = None
    THEN [got |-> items, rest |-> << >>]
    ELSE [got |-> Take(items, limit), rest |-> Drop(items, limit)]

\* A timeout counted from the next backoff instead of from now.
DeadlineLate(T) == now + T + Backoff

\* PktRX.__init__: store._env.timeout(timeout_sec)
Deadline(T) == now + T

\* An on_get_timeout that does not test self.triggered.
NotTriggered(q, s) == q

\* The PktRX of service s is triggered: its timeout, if still queued, will
\* find self.triggered set.
Triggered(q, s) ==
    [i \in 1 .. Len(q) |->
        IF q[i].kind = "get_timeout" /\ q[i].who = s
        THEN [q[i] EXCEPT !.ok = FALSE] ELSE q[i]]

\* Once env.run has ended nothing uses the environment, the TX buffer or the
\* pipes again (the next run creates new ones): they are dropped.
EnvDropped ==
    /\ queue' = << >>
    /\ buf' = << >>
    /\ txWait' = << >>
    /\ txNow' = << >>
    /\ store' = [s \in ServiceIds |-> << >>]
    /\ pend' = [s \in ServiceIds |-> NoGet]

\* A process whose exit is not counted.
ExitNotCounted == active

\* _on_process_exit
OnProcessExit == active - 1

\* ------------------------------------------------------------ env.step
\* One event is popped and its callbacks run.
Step ==
    /\ pc = "running"
    /\ runq = << >>
    /\ queue # << >>
    /\ Head(queue).t <= MaxTime
    /\ LET e == Head(queue)
           q == Tail(queue)
       IN  /\ now' = e.t
           /\ log' = IF e.kind \in {"init", "timeout"} /\ e.who = Tick
                     THEN [log EXCEPT !.ticks = @ + 1, !.tickAt = e.t]
                     ELSE IF e.kind = "get_timeout" /\ ~e.ok
                          THEN [log EXCEPT !.stale = @ + 1]
                     ELSE IF e.kind = "put" /\ pend[e.who].on /\ store[e.who] # << >>
                          THEN [log EXCEPT !.got[e.who] =
                                    @ \o DoGet(store[e.who], pend[e.who].limit).got]
                     ELSE IF e.kind = "tick_done" \/ (e.kind = "proc_done" /\ ~e.ok)
                          THEN [log EXCEPT !.rx = [s \in ServiceIds |-> << >>],
                                           !.got = [s \in ServiceIds |-> << >>]]
                          ELSE log
           /\ CASE e.kind \in {"init", "timeout", "get_done"} ->  \* Process._resume
                    /\ runq' = <<e.who>>
                    /\ queue' = q
                    /\ UNCHANGED <<pc, err, idx, active, store, pend, buf, txWait, txNow>>
                [] e.kind = "tx_event" ->                        \* Process._resume of each
                    /\ runq' = e.val
                    /\ queue' = q
                    /\ UNCHANGED <<pc, err, idx, active, store, pend, buf, txWait, txNow>>
                [] e.kind = "get_timeout" ->                     \* PktRX.on_get_timeout
                    /\ IF e.ok
                       THEN /\ pend' = [pend EXCEPT ![e.who] = NoGet]
                            /\ queue' = Schedule(q, Event(e.t, FALSE, "get_done", e.who, << >>, TRUE))
                       ELSE /\ queue' = q
                            /\ UNCHANGED pend
                    /\ UNCHANGED <<pc, err, idx, active, store, runq, buf, txWait, txNow>>
                [] e.kind = "put" ->                             \* Store._trigger_get
                    /\ IF pend[e.who].on /\ store[e.who] # << >>
                       THEN LET r == DoGet(store[e.who], pend[e.who].limit)
                            IN  /\ store' = [store EXCEPT ![e.who] = r.rest]
                                /\ pend' = [pend EXCEPT ![e.who] = NoGet]
                                /\ queue' = Schedule(Triggered(q, e.who),
                                                Event(e.t, FALSE, "get_done", e.who, r.got, TRUE))
                       ELSE /\ queue' = q
                            /\ UNCHANGED <<store, pend>>
                    /\ UNCHANGED <<pc, err, idx, active, runq, buf, txWait, txNow>>
                [] e.kind = "proc_done" ->                       \* _on_process_exit
                    /\ active' = OnProcessExit
                    /\ IF e.ok
                       THEN /\ queue' = q
                            /\ UNCHANGED <<pc, err, idx, store, pend, buf, txWait, txNow>>
                       ELSE /\ pc' = "teardown"      \* step() raises: env.run ends
                            /\ err' = "service"
                            /\ idx' = 1
                            /\ EnvDropped
                    /\ UNCHANGED runq
                [] e.kind = "tick_done" ->                       \* until = tick_process
                    /\ pc' = "teardown"
                    /\ err' = (IF e.ok THEN err ELSE "tick_process")
                    /\ idx' = 1
                    /\ EnvDropped
                    /\ UNCHANGED <<active, runq>>
    /\ UNCHANGED <<arg, nsvc, filters, forder, isProm, tickpc, txEvent, status,
                   portProm, sessions, bndVars>>

\* ------------------------------------------------------------ services
\* A service's logic runs from one yield to the next and is free to use the
\* pipe as it likes: every choice of its next operation is followed.
Running(p) == pc = "running" /\ runq # << >> /\ Head(runq) = p

svcFrame == <<pc, err, arg, regVars, idx, isProm, now, tickpc, txEvent, portProm,
              sessions, txNow, nframes>>

\* The packets the services send are told apart by the number of the
\* operation that pushes them.
NewPkt == nops + 1

\* pipe.async_tx_pkt, the returned event ignored: TXBuffer.push.
Push(s) ==
    /\ Running(s)
    /\ nops < MaxOps
    /\ buf' = Append(buf, [pkt |-> NewPkt, src |-> s, ev |-> txEvent])
    /\ nops' = nops + 1
    /\ log' = [log EXCEPT !.pushed = @ \cup {NewPkt}]
    /\ UNCHANGED <<svcFrame, queue, runq, txWait, store, pend, status>>

\* yield pipe.async_tx_pkt(pkt): TXBuffer.push, then the wait for tx_event.
PushWait(s) ==
    /\ Running(s)
    /\ nops < MaxOps
    /\ buf' = Append(buf, [pkt |-> NewPkt, src |-> s, ev |-> txEvent])
    /\ txWait' = Append(txWait, s)
    /\ runq' = Tail(runq)
    /\ nops' = nops + 1
    /\ log' = [log EXCEPT !.pushed = @ \cup {NewPkt}]
    /\ UNCHANGED <<svcFrame, queue, store, pend, status>>

\* yield pipe.async_wait(d)
Wait(s, d) ==
    /\ Running(s)
    /\ nops < MaxOps
    /\ queue' = Schedule(queue, Event(now + d, FALSE, "timeout", s, << >>, TRUE))
    /\ runq' = Tail(runq)
    /\ nops' = nops + 1
    /\ UNCHANGED <<svcFrame, buf, txWait, store, pend, status, log>>

\* The PktRX objects are told apart by the number of the operation that
\* creates them; a timeout carries the number of its PktRX.
NewGet == nops + 1

\* yield pipe.async_wait_for_pkt(T, limit): PktRX.__init__ schedules the
\* timeout, then Get.__init__ runs _trigger_get, hence _do_get.
WaitForPkt(s, T, limit) ==
    /\ Running(s)
    /\ nops < MaxOps
    /\ LET q1 == IF T = None THEN queue
                 ELSE Schedule(queue, Event(Deadline(T), FALSE, "get_timeout", s, <<NewGet>>,
                                            store[s] = << >>))
           r  == DoGet(store[s], limit)
       IN  IF store[s] # << >>
           THEN /\ queue' = Schedule(q1, Event(now, FALSE, "get_done", s, r.got, TRUE))
                /\ store' = [store EXCEPT ![s] = r.rest]
                /\ log' = [log EXCEPT !.got[s] = @ \o r.got]
                /\ UNCHANGED pend
           ELSE /\ queue' = q1
                /\ pend' = [pend EXCEPT ![s] = [on |-> TRUE, id |-> NewGet, limit |-> limit,
                                                t0 |-> now, T |-> T]]
                /\ UNCHANGED <<store, log>>
    /\ runq' = Tail(runq)
    /\ nops' = nops + 1
    /\ UNCHANGED <<svcFrame, buf, txWait, status>>

\* The generator returns (ok) or raises: the process event is triggered.
Finish(s, ok) ==
    /\ Running(s)
    /\ s # Tick
    /\ queue' = Schedule(queue, Event(now, FALSE, "proc_done", s, << >>, ok))
    /\ runq' = Tail(runq)
    /\ status' = [status EXCEPT ![s] = IF ok THEN "returned" ELSE "raised"]
    /\ log' = [log EXCEPT !.lastDone = now]
    /\ UNCHANGED <<svcFrame, buf, txWait, store, pend, nops>>

\* ------------------------------------------------------------ _tick_process
tickFrame == <<pc, err, arg, regVars, isProm, now, status, portProm, sessions, nops>>

\* An exception leaves the generator: the tick process fails.
Raised(q) == Schedule(q, Event(now, FALSE, "tick_done", Tick, << >>, FALSE))

\* A list cut down to its first packet.
PktsFirst(b) == [i \in 1 .. Min(1, Len(b)) |-> b[i].pkt]

\* The packets of a list of pushed entries.
Pkts(b) == [i \in 1 .. Len(b) |-> b[i].pkt]

\* A send_all that forgets to empty the list.
NotFlushed == buf

\* TXBuffer.send_all: self.pkts = []
Flushed == << >>

\* TXBuffer.send_all; txok: client.push_packets returns.  The transmit
\* timestamp is the number of the transmit.
SendAll(txok) ==
    /\ Running(Tick)
    /\ tickpc = "flush"
    /\ IF buf = << >>
       THEN /\ txok
            /\ tickpc' = "fetch"
            /\ idx' = 1
            /\ log' = [log EXCEPT !.flush = @ + 1]
            /\ UNCHANGED <<queue, runq, buf, txEvent, txWait, txNow>>
       ELSE IF txok
            THEN /\ buf' = Flushed
                 /\ txNow' = buf
                 /\ queue' = Schedule(queue, Event(now, FALSE, "tx_event", txEvent, txWait, TRUE))
                 /\ txEvent' = txEvent + 1
                 /\ txWait' = << >>
                 /\ log' = [log EXCEPT !.flush = @ + 1,
                                       !.tx = Append(@, Pkts(buf)),
                                       !.resolved = Append(@, [ev |-> txEvent,
                                                               ts |-> Len(log.tx) + 1])]
                 /\ tickpc' = "fetch"
                 /\ idx' = 1
                 /\ UNCHANGED runq
            ELSE /\ queue' = Raised(queue)
                 /\ runq' = Tail(runq)
                 /\ log' = [log EXCEPT !.flush = @ + 1, !.tx = Append(@, Pkts(buf))]
                 /\ UNCHANGED <<tickpc, idx, buf, txEvent, txWait, txNow>>
    /\ UNCHANGED <<tickFrame, store, pend, nframes>>

\* pipe._on_rx_pkt -> Pkt.put for every (service, entry) of ds, in order:
\* the entry is appended and the put event is triggered.
RECURSIVE PutAll(_, _)
PutAll(sq, ds) ==
    IF ds = << >> THEN sq
    ELSE LET d == Head(ds)
         IN  PutAll([store |-> [sq.store EXCEPT ![d.who] = Append(@, d.item)],
                     queue |-> Schedule(sq.queue, Event(now, FALSE, "put", d.who, << >>, TRUE))],
                    Tail(ds))

\* A loop that forwards each packet to the first service only.
RECURSIVE DeliveriesFirstHit(_, _, _)
DeliveriesFirstHit(g, frames, ts) ==
    IF frames = << >> THEN << >>
    ELSE LET item == [pkt |-> Head(frames).pkt, ts |-> ts]
             to   == Lookup(g, Head(frames))
         IN  [i \in 1 .. Min(1, Len(to)) |-> [who |-> to[i], item |-> item]]
             \o DeliveriesFirstHit(g, Tail(frames), ts + 1)

\* The loop of _fetch_rx_pkts_per_filter over the fetched packets.
RECURSIVE Deliveries(_, _, _)
Deliveries(g, frames, ts) ==
    IF frames = << >> THEN << >>
    ELSE LET item == [pkt |-> Head(frames).pkt, ts |-> ts]
             to   == Lookup(g, Head(frames))
         IN  [i \in 1 .. Len(to) |-> [who |-> to[i], item |-> item]]
             \o Deliveries(g, Tail(frames), ts + 1)

\* The entries the calls ds of _on_rx_pkt hand to the pipe of service s.
RxOf(s, ds) ==
    LET mine == SelectSeq(ds, LAMBDA d : d.who = s)
    IN  [i \in 1 .. Len(mine) |-> mine[i].item]

\* What the capture may hold: packets from the network (pkt 0), accepted by
\* any set of services, and the packets the port has just transmitted, each
\* accepted by the filter of the service that sent it.
Frames ==
    {[pkt |-> 0, match |-> m] : m \in Matches}
    \cup {[pkt |-> txNow[i].pkt, match |-> {txNow[i].src}] : i \in 1 .. Len(txNow)}

FrameSeqs == UNION {[1 .. k -> Frames] : k \in 0 .. (MaxFrames - nframes)}

\* _fetch_rx_pkts_per_filter for the next filter; result: what the port and
\* the parser do: "ok", "fetch_fails", or "parse_fails" after `frames`.
Fetch(frames, result) ==
    /\ Running(Tick)
    /\ tickpc = "fetch"
    /\ idx <= Len(forder)
    /\ result = "fetch_fails" => frames = << >>
    /\ LET ds == Deliveries(forder[idx], frames, nframes + 1)
           sq == PutAll([store |-> store, queue |-> queue], ds)
       IN  /\ store' = sq.store
           /\ nframes' = nframes + Len(frames)
           /\ log' = [log EXCEPT !.fetch = @ + 1,
                                 !.rx = [s \in ServiceIds |-> @[s] \o RxOf(s, ds)]]
           /\ IF result = "ok"
              THEN /\ queue' = sq.queue
                   /\ idx' = idx + 1
                   /\ UNCHANGED <<runq, tickpc>>
              ELSE /\ queue' = Raised(sq.queue)
                   /\ runq' = Tail(runq)
                   /\ tickpc' = "flush"
                   /\ UNCHANGED idx
    /\ UNCHANGED <<tickFrame, buf, txEvent, txWait, pend, txNow>>

\* A backoff twice as long.
WakeLate == now + Backoff + Backoff

\* yield self.env.timeout(0.05)
Wake == now + Backoff

\* The test of active_services that ends the iteration.
BackoffOrReturn ==
    /\ Running(Tick)
    /\ tickpc = "fetch"
    /\ idx > Len(forder)
    /\ IF active = 0
       THEN /\ queue' = Schedule(queue, Event(now, FALSE, "tick_done", Tick, << >>, TRUE))
            /\ log' = [log EXCEPT !.tests = @ + 1, !.tickEnd = now]
       ELSE /\ queue' = Schedule(queue, Event(Wake, FALSE, "timeout", Tick, << >>, TRUE))
            /\ log' = [log EXCEPT !.tests = @ + 1]
    /\ runq' = Tail(runq)
    /\ tickpc' = "flush"
    /\ txNow' = << >>
    /\ UNCHANGED <<tickFrame, idx, buf, txEvent, txWait, store, pend, nframes>>

\* ------------------------------------------------------------ finally
\* One iteration of the loop that stops the captures; ok: stop_capture
\* returns.
StopCapture(ok) ==
    /\ pc = "teardown"
    /\ idx <= Len(forder)
    /\ LET id == filters[forder[idx]].capture_id
       IN  IF id = None
           THEN /\ ok
                /\ idx' = idx + 1
                /\ UNCHANGED <<pc, err, sessions, log>>
           ELSE /\ log' = [log EXCEPT !.stop = Append(@, id)]
                /\ IF ok
                   THEN /\ sessions' = sessions \ {id}
                        /\ idx' = idx + 1
                        /\ UNCHANGED <<pc, err>>
                   ELSE /\ pc' = "exited"
                        /\ err' = "stop_capture"
                        /\ UNCHANGED <<idx, sessions>>
    /\ UNCHANGED <<arg, regVars, isProm, envVars, status, portProm, bndVars>>

\* The promiscuous flag is restored and the context reset.
Restore ==
    /\ pc = "teardown"
    /\ idx > Len(forder)
    /\ portProm' = (IF isProm THEN portProm ELSE FALSE)
    /\ log' = [log EXCEPT !.set_attr = IF isProm THEN @ ELSE Append(@, FALSE)]
    /\ filters' = << >>
    /\ forder' = << >>
    /\ nsvc' = 0
    /\ active' = 0
    /\ pc' = "exited"
    /\ UNCHANGED <<err, arg, idx, isProm, envVars, status, sessions, bndVars>>

\* ------------------------------------------------------------ properties
Exited == pc = "exited"

\* The value a get of service s has been resolved with and not yet received.
GetDone(q, s) == {q[i].val : i \in {j \in 1 .. Len(q) : q[j].kind = "get_done" /\ q[j].who = s}}

\* C1: every capture session that start_capture opened during the run has
\* been passed to stop_capture exactly once when run() has exited, and
\* stop_capture is never called without a session id.
C1_CaptureLifecycle ==
    Exited =>
        /\ \A id \in log.started : Count(log.stop, id) = 1
        /\ Count(log.stop, None) = 0

\* C2: when run() has exited after turning the promiscuous flag on, the
\* flag is off again.
C2_PromiscuousRestore ==
    (Exited /\ Count(log.set_attr, TRUE) > 0) => ~portProm

\* C3: a run of zero services ends in the first tick iteration, at time 0;
\* when all the services of a run have returned, the tick loop has returned
\* by, and is not alive after, the time of the last return plus one backoff.
AllReturned == arg.n > 0 /\ \A s \in 1 .. arg.n : status[s] = "returned"

C3_Termination ==
    /\ (arg.shape = "list" /\ arg.n = 0 /\ log.ticks > 0 /\ ~Running(Tick))
           => (log.tickEnd = 0 /\ log.ticks = 1)
    /\ AllReturned
           => IF log.tickEnd # None
              THEN log.tickEnd <= log.lastDone + Backoff
              ELSE pc = "running" => now <= log.lastDone + Backoff

C3_Witness ==
    /\ AllReturned
    /\ arg.n = 2
    /\ log.tickEnd # None
    /\ log.tickEnd = log.lastDone + Backoff

\* C4: a send_all that returns with K >= 1 payloads pushed since the last
\* flush has made exactly one transmit call, with those K payloads in push
\* order, has emptied the buffer and has triggered once, with one
\* timestamp, the one event all K pushes returned; the event later pushes
\* return is another one, not triggered.  On an empty buffer send_all makes
\* no transmit call and triggers no event.
C4_BatchAtomicity ==
    [][(Running(Tick) /\ tickpc = "flush" /\ tickpc' = "fetch") =>
          IF buf # << >>
          THEN /\ log'.tx = Append(log.tx, Pkts(buf))
               /\ buf' = << >>
               /\ \A i \in 1 .. Len(buf) : buf[i].ev = txEvent
               /\ \E ts \in 1 .. Len(log'.tx) :
                      log'.resolved = Append(log.resolved, [ev |-> txEvent, ts |-> ts])
               /\ \A i \in 1 .. Len(log.resolved) : log.resolved[i].ev # txEvent
               /\ \A i \in 1 .. Len(log'.resolved) : log'.resolved[i].ev # txEvent'
          ELSE /\ log'.tx = log.tx
               /\ log'.resolved = log.resolved
               /\ txEvent' = txEvent
               /\ buf' = << >>
    ]_vars

C4_Witness ==
    /\ Len(log.tx) = 1
    /\ Len(log.tx[1]) = 2
    /\ Len(log.resolved) = 1
    /\ buf = << >>
    /\ tickpc = "fetch"

\* C5: no store holds a packet that its own service sent and that was
\* transmitted in the current tick iteration.
C5_NoSelfReplyInTick ==
    \A s \in ServiceIds : \A i \in 1 .. Len(store[s]) : \A j \in 1 .. Len(txNow) :
        ~(txNow[j].pkt = store[s][i].pkt /\ txNow[j].src = s)

C7_LimitCorrectness ==
    [][\A s \in ServiceIds : \A N \in Limits :
          ((\E T \in Timeouts : WaitForPkt(s, T, N)) /\ store[s] # << >>)
              => LET M == Len(store[s])
                 IN  IF N # None /\ M >= N
                     THEN /\ GetDone(queue', s) = {SubSeq(store[s], 1, N)}
                          /\ store'[s] = SubSeq(store[s], N + 1, M)
                     ELSE /\ GetDone(queue', s) = {store[s]}
                          /\ store'[s] = << >>
    ]_vars

C7_Witness ==
    \E s \in ServiceIds :
        /\ now = Backoff - 1
        /\ Len(store[s]) = 1
        /\ \E v \in GetDone(queue, s) : Len(v) = 1 /\ v[1].ts <= store[s][1].ts

\* C8: env.run is never ended by the error of a service.
C8_ServiceErrorIsolated ==
    pc \in {"teardown", "exited"} => err # "service"

\* C9: when run() has exited with the error of a stop_capture, every session
\* opened has been passed to stop_capture, the promiscuous flag is as it was
\* on entry and the registry is reset.
C9_BestEffortTeardown ==
    (Exited /\ err = "stop_capture") =>
        /\ \A id \in log.started : Count(log.stop, id) >= 1
        /\ ~isProm => ~portProm
        /\ nsvc = 0 /\ filters = << >> /\ forder = << >> /\ active = 0

\* C10: when run() has exited on a port that fails validation or on an
\* argument that is not a service or a list of services, no set_attr,
\* start_capture, transmit or fetch call was made, no process was created
\* and the registry is empty.
C10_EarlyErrors ==
    (Exited /\ err \in {"precondition", "configuration"}) =>
        /\ log.set_attr = << >> /\ log.started = {} /\ log.stop = << >>
        /\ log.tx = << >> /\ log.fetch = 0
        /\ \A s \in ServiceIds : status[s] = "none"
        /\ queue = << >>
        /\ nsvc = 0 /\ filters = << >> /\ forder = << >> /\ active = 0

C10_Witness ==
    Exited /\ err = "configuration" /\ arg.n > 0

\* C11: a get that its timeout resolves with an empty list leaves no entry
\* behind that was delivered to its store at that same instant: when the
\* deadline and a delivery coincide, the get receives the entry.
C11_ArrivalWinsOverTimeout ==
    \A s \in ServiceIds : GetDone(queue, s) = {<< >>} => store[s] = << >>

\* C12: a get pending on a store to which one dispatch has delivered k >= 2
\* entries is resolved with the first `limit` of them, in order, or with all
\* of them when it has no limit.
C12_PendingGetOnArrival ==
    [][\A s \in ServiceIds :
          (pend[s].on /\ Len(store[s]) >= 2 /\ ~pend'[s].on /\ pc' = "running")
              => GetDone(queue', s) =
                     {IF pend[s].limit = None THEN store[s]
                      ELSE SubSeq(store[s], 1, Min(pend[s].limit, Len(store[s])))}
    ]_vars

\* The resolutions of gets of service s that the service has yet to receive.
GetDones(q, s) == SelectSeq(q, LAMBDA e : e.kind = "get_done" /\ e.who = s)

\* The event env.step pops is of kind k and belongs to service s.
Pops(k, s) == Step /\ Head(queue).kind = k /\ Head(queue).who = s

\* C13: a get is resolved at most once.  The timeout of a get that is
\* pending resolves it, with an empty list, and it is pending no more; the
\* timeout of a get already resolved changes neither a result nor a store
\* nor the get pending by then; an entry put when no get is pending stays in
\* the store and resolves nothing.
C13_SingleResolution ==
    [][\A s \in ServiceIds :
          /\ Len(GetDones(queue', s)) <= 1
          /\ GetDones(queue', s) # << >> => ~pend'[s].on
          /\ Pops("get_timeout", s) =>
                 IF pend[s].on /\ pend[s].id = Head(queue).val[1]
                 THEN /\ ~pend'[s].on
                      /\ GetDone(queue', s) = {<< >>}
                      /\ store' = store
                 ELSE /\ pend' = pend
                      /\ store' = store
                      /\ GetDones(queue', s) = GetDones(queue, s)
          /\ (Pops("put", s) /\ ~pend[s].on) =>
                 /\ store' = store
                 /\ pend' = pend
                 /\ GetDones(queue', s) = GetDones(queue, s)
    ]_vars

\* The timeout of a get that an arrival resolved has fired while the next
\* get of the same service was pending.
C13_Witness ==
    \E s \in ServiceIds :
        /\ log.stale > 0
        /\ pend[s].on
        /\ pend[s].id = 2
        /\ now = Backoff

\* The entries a fetch of `frames` for filter g owes to service s: one for
\* each frame whose lookup answers s, with the frame's arrival timestamp.
Owed(s, g, frames) ==
    LET hit(i) == \E k \in 1 .. Len(Lookup(g, frames[i])) : Lookup(g, frames[i])[k] = s
        at     == SelectSeq([i \in 1 .. Len(frames) |-> i], hit)
    IN  [j \in 1 .. Len(at) |-> [pkt |-> frames[at[j]].pkt, ts |-> nframes + at[j]]]

TickRaised == \E i \in 1 .. Len(queue) : queue[i].kind = "tick_done" /\ ~queue[i].ok

\* C15: in an iteration of the tick loop send_all is called before any
\* fetch, the active count is tested after the fetch of every filter group,
\* and no service runs from the start of the iteration to that test (or to
\* the exception that ends the loop); an iteration starts exactly one
\* backoff after the one before.
C15_TickOrdering ==
    [][/\ log'.flush # log.flush
           => log.flush + 1 = log.ticks /\ log.fetch = (log.ticks - 1) * Len(forder)
       /\ log'.fetch # log.fetch
           => log.flush = log.ticks /\ log.tests + 1 = log.ticks
       /\ log'.tests # log.tests
           => log.flush = log.ticks /\ log.fetch = log.ticks * Len(forder)
       /\ (nops' # nops \/ status' # status) /\ pc = "running"
           => log.tests = log.ticks \/ TickRaised
       /\ log'.ticks # log.ticks /\ log.ticks > 0
           => log.tests = log.ticks /\ now' = log.tickAt + Backoff
    ]_vars

\* The second iteration has fetched for the second of two filter groups.
C15_Witness ==
    /\ log.ticks = 2
    /\ log.tickAt = Backoff
    /\ Len(forder) = 2
    /\ log.fetch = 4
    /\ nops > 0

\* The processes of services whose exit callback has not run: those still
\* alive and those whose process event is yet to be popped.
Unfinished ==
    Cardinality({s \in ServiceIds : status[s] = "alive"})
    + Len(SelectSeq(queue, LAMBDA e : e.kind = "proc_done"))

\* C16: while the run lasts the active count is the number of processes
\* whose exit callback has not run; it is never negative and never above
\* the number of registered services; the tick loop has returned, and the
\* run has ended without an error, only with the count at 0 and no service
\* left unfinished.
C16_ActiveCount ==
    /\ pc \in {"start_capture", "running"} => active = Unfinished
    /\ active >= 0
    /\ active <= nsvc
    /\ log.tickEnd # None
           => active = 0 /\ \A s \in ServiceIds : status[s] # "alive"
    /\ (pc \in {"teardown", "exited"} /\ err = "none")
           => log.tickEnd # None /\ active = 0

\* Of two services one has returned and its exit has been counted.
C16_Witness ==
    /\ pc = "running"
    /\ nsvc = 2
    /\ active = 1
    /\ status[1] = "returned"
    /\ status[2] = "alive"
    /\ now > 0

\* C17: while the run lasts, for every service the results of its gets, one
\* after the other, followed by what its store holds are the entries handed
\* to its pipe, in the order they were handed.
C17_LosslessFifo ==
    pc = "running" =>
        \A s \in ServiceIds : log.got[s] \o store[s] = log.rx[s]

\* A service was handed two entries, has received the first through a get
\* with a limit, and the second is still in its store.
C17_Witness ==
    /\ pc = "running"
    /\ \E s \in ServiceIds :
           /\ Len(log.rx[s]) = 2
           /\ Len(log.got[s]) = 1
           /\ Len(store[s]) = 1

\* The number of places payload p has in the transmit calls made.
Carried(p) ==
    Cardinality({ij \in (1 .. Len(log.tx)) \X (1 .. MaxOps) :
                    ij[2] <= Len(log.tx[ij[1]]) /\ log.tx[ij[1]][ij[2]] = p})

\* C18: when the tick loop has returned, every payload a service pushed has
\* been carried by exactly one transmit call, and the buffer is empty when
\* the loop returns.
C18_NoPayloadStranded ==
    log.tickEnd # None =>
        /\ \A p \in log.pushed : Carried(p) = 1
        /\ buf = << >>

\* The only service pushed a payload after the first iteration and returned
\* at once, at time 0; the next iteration transmitted it and the loop
\* returned.
C18_Witness ==
    /\ pc = "running"
    /\ arg.n = 1
    /\ log.pushed = {2}
    /\ log.lastDone = 0
    /\ log.tx = <<<<2>>>>
    /\ log.tickEnd = Backoff

\* The port is promiscuous and every filter group has an open capture.
Armed ==
    /\ portProm
    /\ \A g \in DOMAIN filters :
           filters[g].capture_id # None /\ filters[g].capture_id \in sessions

\* C19: a service is resumed only with the port promiscuous and a capture
\* open for every filter group; in a run whose start_capture failed no
\* service has made a step.
C19_NoStepBeforeArmed ==
    /\ (runq # << >> /\ Head(runq) \in ServiceIds) => Armed
    /\ err = "start_capture"
           => /\ runq = << >>
              /\ nops = 0
              /\ log.ticks = 0
              /\ \A s \in ServiceIds : status[s] \in {"none", "alive"}

\* The first step of a service, on a port the run made promiscuous, with
\* the captures of two filter groups open.
C19_Witness ==
    /\ runq # << >>
    /\ Head(runq) \in ServiceIds
    /\ nops = 0
    /\ ~isProm
    /\ Cardinality(sessions) = 2

\* The run has saved the port's promiscuous attribute in is_promiscuous.
Entered == pc # "entry" /\ err \notin {"precondition", "configuration"}

\* C20: from the moment the run has read the attribute, if the port was
\* promiscuous no set_attr call is made and the port stays promiscuous, up
\* to and after the exit, with or without an error; if it was not, the
\* first set_attr call turns it on, it is made before any start_capture and
\* it is the only one that turns it on.
C20_PromiscuousFrame ==
    /\ (Entered /\ isProm) => log.set_attr = << >> /\ portProm
    /\ (Entered /\ ~isProm)
           => /\ log.set_attr # << >>
              /\ Head(log.set_attr) = TRUE
              /\ Count(log.set_attr, TRUE) = 1
    /\ (pc = "entry" \/ ~Entered) => log.started = {} /\ log.set_attr = << >>

\* A run on a port that was promiscuous has exited with an error after its
\* capture was started.
C20_Witness ==
    /\ Exited
    /\ isProm
    /\ portProm
    /\ err # "none"
    /\ log.started # {}

\* ------------------------------------------------------------ specification
Next ==
    \/ \E a \in RunArgs, valid \in BOOLEAN : Run(a, valid)
    \/ \E ok \in BOOLEAN : StartCapture(ok)
    \/ StartTick
    \/ Step
    \/ \E s \in ServiceIds : Push(s)
    \/ \E s \in ServiceIds : PushWait(s)
    \/ \E s \in ServiceIds, d \in Durations : Wait(s, d)
    \/ \E s \in ServiceIds, T \in Timeouts, limit \in Limits : WaitForPkt(s, T, limit)
    \/ \E s \in ServiceIds, ok \in BOOLEAN : Finish(s, ok)
    \/ \E txok \in BOOLEAN : SendAll(txok)
    \/ \E frames \in FrameSeqs, result \in {"ok", "fetch_fails", "parse_fails"} :
           Fetch(frames, result)
    \/ BackoffOrReturn
    \/ \E ok \in BOOLEAN : StopCapture(ok)
    \/ Restore

Spec == Init /\ [][Next]_vars
====
